---- MODULE Spec2Model ----
(***************************************************************************)
(* Fuel-stop planning of FuelTrackingApp: the two revisions of             *)
(* find_gas_stations_on_route (api/views.py, the one calculate_trip calls, *)
(* and api/utils.py), with the helpers they call.                          *)
(*                                                                         *)
(* Units: distances in miles, prices in thousandths of a dollar, costs in  *)
(* cents, fuel in hundredths of a gallon.  A coordinate pair (lat, lon) is *)
(* a point of a line measured in miles, and geodesic(a, b).miles is the    *)
(* absolute difference: a route may double back on itself.                 *)
(***************************************************************************)
EXTENDS Integers, Sequences, FiniteSets, TLC

VARIABLES
    revision,         \* which find_gas_stations_on_route runs: "views" | "utils"
    total_distance,   \* route_details["total_distance_miles"]
    waypoints,        \* route_details["waypoints"]
    gas_stations,     \* the station table (its city/state columns are rewritten)
    has_price,        \* whether the table has a "retail price" column
    miles_traveled,   \* the planner's cursor
    used_stations,    \* names of the stations already chosen
    fuel_stops,       \* the stops appended so far
    stop_coordinates, \* stop_lat, stop_lon of the current iteration
    nearest_waypoint, \* nearest_waypoint of the current iteration
    stop_city_state,  \* stop_city, stop_state as the geocoding call returned them
    nearest_station,  \* what find_nearest_gas_station_by_city last returned
    pc,               \* "loop" | "waiting" | "returned" | "raised" | "responded",
                      \* and "call" | "done", "lookup" | "looked_up" for the
                      \* functions run alone
    exception,        \* the exception that left the planner, "" when none
    response,         \* the Response of calculate_trip
    iter_log,         \* how each loop iteration so far ended
    geocode_calls     \* calls of get_city_state_from_coordinates so far

vars == <<revision, total_distance, waypoints, gas_stations, has_price,
          miles_traveled, used_stations, fuel_stops, stop_coordinates,
          nearest_waypoint, stop_city_state, nearest_station, pc, exception,
          response, iter_log, geocode_calls>>

\* ------------------------------------------------------------- constants
ViewsVEHICLE_RANGE_MILES == 440
UtilsVEHICLE_RANGE_MILES == 500
MPG == 10
DefaultRetailPrice == 3500

\* ---------------------------------------------------------------- bounds
MaxLegs == 2
DistanceOffset == 100
MaxWaypoints == 3
WaypointGrain == 400
MaxWaypointGrains == 3
TargetGrain == 220
MaxTargetGrains == 7
MaxCatalogRows == 2

NoneVal == "<None>"

\* ----------------------------------------------------- string conversions
\* str.strip().lower() on the city spellings of the model.
StripLower(s) ==
    CASE s \in {"Dallas", " DALLAS ", "dallas"} -> "dallas"
      [] s \in {"Austin", " austin ", "austin"} -> "austin"
      [] OTHER -> s

\* str.strip().upper() on the state spellings of the model.
StripUpper(s) ==
    CASE s \in {"TX", " tx ", "tx"} -> "TX"
      [] s \in {"CO", "co"} -> "CO"
      [] OTHER -> s

\* str.title() of a normalized city.
Title(s) ==
    CASE s = "dallas" -> "Dallas"
      [] s = "austin" -> "Austin"
      [] OTHER -> s

\* ------------------------------------------------------------ arithmetic
Abs(x) == IF x < 0 THEN -x ELSE x

Min(a, b) == IF a <= b THEN a ELSE b

\* round() of a float whose exact value is n / d: the nearest integer, ties
\* to the even one.  Used where the float is the quotient itself or lies
\* off every tie (44 or 50 gallons times a price in thousandths), where
\* Python's round and numpy's agree.
RoundHalfEven(n, d) ==
    LET q == n \div d
        r == n % d
    IN  IF 2 * r < d THEN q
        ELSE IF 2 * r > d THEN q + 1
        ELSE IF q % 2 = 0 THEN q ELSE q + 1

\* 2^k modulo m.
RECURSIVE PowerOfTwoMod(_, _)
PowerOfTwoMod(k, m) == IF k = 0 THEN 1 % m ELSE (2 * PowerOfTwoMod(k - 1, m)) % m

\* The binary exponent e of the positive fraction n / d:
\* 2^e <= n / d < 2^(e + 1).
RECURSIVE BinaryExponent(_, _)
BinaryExponent(n, d) ==
    IF n >= 2 * d THEN BinaryExponent(n, 2 * d) + 1
    ELSE IF n < d THEN BinaryExponent(2 * n, d) - 1
    ELSE 0

\* A price of `mills` thousandths of a dollar is held as the float64
\* nearest to mills / 1000.  With 53 bits of mantissa the float is
\* m / 2^k, k = 52 - e, m the integer nearest to mills * 2^k / 1000; the
\* remainder of mills * 2^k by 1000 tells on which side of the decimal the
\* float lies: 0 exactly on it, below 500 under it, above 500 over it.
FloatRemainder(mills) ==
    ((mills % 1000) * PowerOfTwoMod(52 - BinaryExponent(mills, 1000), 1000)) % 1000

\* round(fuel_price, 2) in cents for a Python float (the default 3.50):
\* correctly rounded from the float's exact value, so a decimal tie (a 5 in
\* the third place) goes the way the float lies, and to the even cent only
\* when the float is exactly the decimal.
RoundPrice(mills) ==
    LET q == mills \div 10
        r == mills % 10
    IN  IF r < 5 THEN q
        ELSE IF r > 5 THEN q + 1
        ELSE IF FloatRemainder(mills) = 0
             THEN (IF q % 2 = 0 THEN q ELSE q + 1)
        ELSE IF FloatRemainder(mills) < 500 THEN q
        ELSE q + 1

\* round(fuel_price, 2) in cents for a numpy.float64, which is what a
\* pandas row hands out: numpy multiplies by 100, rounds to the nearest
\* integer (ties to even) and divides by 100.  The product is a float64
\* again; on a decimal tie it is exactly the half q + 0.5 when the float's
\* error, scaled by 100, stays within half a unit in the last place of the
\* product: always when the product's exponent is 7 above the price's,
\* and for a remainder outside 321..679 when it is 6 above.  Otherwise the
\* product lies on the float's side of the half.
NumpyRoundPrice(mills) ==
    LET q == mills \div 10
        r == mills % 10
        gap == BinaryExponent(mills, 10) - BinaryExponent(mills, 1000)
        rem == FloatRemainder(mills)
    IN  IF r < 5 THEN q
        ELSE IF r > 5 THEN q + 1
        ELSE IF gap = 7 \/ rem <= 320 \/ rem >= 680
             THEN (IF q % 2 = 0 THEN q ELSE q + 1)
        ELSE IF rem < 500 THEN q
        ELSE q + 1

\* geodesic(a, b).miles
Geodesic(a, b) == Abs(a - b)

\* ------------------------------------------- get_coordinates_at_distance
\* total_miles after the loop body has run for i = 0 .. k-1 (0-based), that
\* is the cumulative distance of waypoint k+1 (1-based).
RECURSIVE CumulativeMiles(_, _)
CumulativeMiles(wps, k) ==
    IF k <= 1 THEN 0
    ELSE CumulativeMiles(wps, k - 1) + Geodesic(wps[k - 1], wps[k])

\* The 1-based index of the waypoint the loop returns; the fall-through
\* return is waypoints[-1].
GetCoordinatesIndex(target, wps) ==
    LET hits == {k \in 2..Len(wps) : CumulativeMiles(wps, k) >= target}
    IN  IF hits = {} THEN Len(wps)
        ELSE CHOOSE k \in hits : \A j \in hits : k <= j

\* Defined for len(waypoints) >= 2 (otherwise the code returns None, None).
GetCoordinatesAtDistance(target, wps) == wps[GetCoordinatesIndex(target, wps)]

\* find_nearest_waypoint: the first waypoint at minimal distance.
FindNearestWaypoint(p, wps) ==
    LET best == CHOOSE k \in 1..Len(wps) :
                  /\ \A j \in 1..Len(wps) :
                        Geodesic(p, wps[k]) <= Geodesic(p, wps[j])
                  /\ \A j \in 1..(k - 1) :
                        Geodesic(p, wps[j]) > Geodesic(p, wps[k])
    IN  wps[best]

\* ------------------------------------------------------- station catalog
\* Rows of the fuel-price table: truckstop name, address, city, state and
\* retail price.  Two rows share a city, two share a name, one is spelled
\* the way an unnormalized table spells it.
StationRows ==
    { [name |-> "PILOT #1", address |-> "I-20, EXIT 1", city |-> "dallas",
       state |-> "TX", price |-> 3000],
      [name |-> "LOVES #2", address |-> "I-35, EXIT 2", city |-> "dallas",
       state |-> "TX", price |-> 3255],
      [name |-> "PILOT #1", address |-> "SR-71, EXIT 3", city |-> " austin ",
       state |-> " tx ", price |-> 3499] }

IsInjective(s) == \A i, j \in 1..Len(s) : s[i] = s[j] => i = j

Catalogs ==
    UNION { {c \in [1..n -> StationRows] : IsInjective(c)} :
            n \in 0..MaxCatalogRows }

\* df["city"].str.strip().str.lower(), df["state"].str.strip().str.upper()
NormalizeCatalog(catalog) ==
    [i \in 1..Len(catalog) |->
        [catalog[i] EXCEPT !.city = StripLower(@), !.state = StripUpper(@)]]

\* load_gas_stations: the table as calculate_trip hands it to the planner.
LoadGasStations(catalog) == NormalizeCatalog(catalog)

\* ------------------------------------------------ reverse geocoding call
\* What the collaborator can do on one lookup.
GeocoderOutcomes ==
    { [kind |-> "ok", city |-> a[1], state |-> a[2]] :
        a \in { <<"Dallas", "TX">>, <<" DALLAS ", "tx">>, <<"Austin", "TX">>,
                <<"Austin", "CO">>, <<NoneVal, "TX">>, <<"Dallas", NoneVal>> } }
    \cup
    { [kind |-> k, city |-> NoneVal, state |-> NoneVal] :
        k \in {"ok_no_results", "error_status", "non_json",
               "transport_failure", "no_answer"} }

\* requests.get sits before the try block: what it raises leaves the
\* function.
GeocodeRaises(outcome) == outcome.kind = "transport_failure"

\* requests.get is called without a timeout: a server that never answers
\* keeps the call, and the planner, waiting for ever.
GeocodeHangs(outcome) == outcome.kind = "no_answer"

\* The call comes back with a value.
GeocodeReturns(outcome) == ~GeocodeRaises(outcome) /\ ~GeocodeHangs(outcome)

\* get_city_state_from_coordinates, when it returns: <<city, state>>.
GetCityStateFromCoordinates(outcome) ==
    IF /\ outcome.kind = "ok"
       /\ outcome.city # NoneVal
       /\ outcome.state # NoneVal
    THEN <<outcome.city, outcome.state>>
    ELSE <<NoneVal, NoneVal>>

\* --------------------------------------- find_nearest_gas_station_by_city
\* A lookup that forgets the stations already chosen.
AlreadyUsedNever(name, used) == FALSE

\* "if truckstop_name in used_stations"
AlreadyUsed(name, used) == name \in used

\* The rows of the (normalized) table in the stop's city and state, in
\* table order.
CityMatch(stop_city, stop_state, catalog) ==
    SelectSeq(NormalizeCatalog(catalog),
              LAMBDA row : /\ row.city = StripLower(stop_city)
                           /\ row.state = StripUpper(stop_state))

\* The station returned: <<>> for None, <<row>> for city_match.iloc[0].
FindNearestGasStationByCity(stop_city, stop_state, catalog, used) ==
    LET city_match == CityMatch(stop_city, stop_state, catalog)
    IN  IF city_match = <<>> THEN <<>>
        ELSE IF AlreadyUsed(city_match[1].name, used) THEN <<>>
        ELSE <<city_match[1]>>

\* used_stations after the call.
UsedAfterLookup(stop_city, stop_state, catalog, used) ==
    LET found == FindNearestGasStationByCity(stop_city, stop_state, catalog, used)
    IN  IF found = <<>> THEN used ELSE used \cup {found[1].name}

\* ---------------------------------------------------- the planner's loop
VehicleRange(rev) ==
    IF rev = "views" THEN ViewsVEHICLE_RANGE_MILES ELSE UtilsVEHICLE_RANGE_MILES

\* "while miles_traveled <= total_distance" (views.py) and
\* "while miles_traveled < total_distance" (utils.py)
LoopCondition(rev, miles, total) ==
    IF rev = "views" THEN miles <= total ELSE miles < total

\* A loop that forgets to move the cursor.
AdvanceCursorStalled(rev, miles) == miles

\* "miles_traveled += VEHICLE_RANGE_MILES"
AdvanceCursor(rev, miles) == miles + VehicleRange(rev)

\* nearest_station.get("retail price", 3.50)
RetailPrice(station, with_price) ==
    IF with_price THEN station.price ELSE DefaultRetailPrice

\* round(fuel_price, 2): the price of the row is a numpy.float64, the
\* default a Python float.
RoundFuelPrice(station, with_price) ==
    IF with_price THEN NumpyRoundPrice(station.price)
    ELSE RoundPrice(DefaultRetailPrice)

\* The dictionary appended to fuel_stops.
FuelStop(rev, station, with_price, miles, total) ==
    [ name |-> station.name,
      address |-> station.address,
      city |-> Title(station.city),
      state |-> station.state,
      fuel_price_per_gallon |-> RoundFuelPrice(station, with_price),
      fuel_needed_gallons |-> RoundHalfEven(VehicleRange(rev) * 100, MPG),
      total_cost |-> RoundHalfEven(VehicleRange(rev) * RetailPrice(station, with_price),
                                   MPG * 10),
      miles_traveled |-> Min(miles, total) ]

\* calculate_total_fuel_cost
RECURSIVE SumCost(_)
SumCost(stops) ==
    IF stops = <<>> THEN 0 ELSE stops[1].total_cost + SumCost(Tail(stops))

CalculateTotalFuelCost(stops) == SumCost(stops)

\* ------------------------------------------------------------ the inputs
\* total_distance values on both sides of every multiple of either range.
TotalDistances ==
    { k * r + d : k \in 0..MaxLegs,
                  r \in {ViewsVEHICLE_RANGE_MILES, UtilsVEHICLE_RANGE_MILES},
                  d \in {0, DistanceOffset} }

WaypointPositions == { i * WaypointGrain : i \in 0..MaxWaypointGrains }

\* Routes of at least two waypoints.
Routes == UNION { [1..n -> WaypointPositions] : n \in 2..MaxWaypoints }

\* The routes the planner is run on: from mile 0 onwards, never backwards.
ForwardRoutes ==
    { w \in Routes : /\ Len(w) = MaxWaypoints
                     /\ w[1] = 0
                     /\ \A i \in 1..(Len(w) - 1) : w[i] < w[i + 1] }

NoResponse ==
    [status |-> 0, fuel_stops |-> <<>>, total_fuel_cost |-> 0, error |-> ""]

\* calculate_trip has the route (views.py line 69) and calls the planner of
\* views.py with the loaded table, in which it found the start and the
\* finish (an empty table is answered 400 at lines 55-59, before any
\* planning); the planner of utils.py is called with any table.
Init ==
    /\ revision \in {"views", "utils"}
    /\ total_distance \in TotalDistances
    /\ waypoints \in ForwardRoutes
    /\ \E c \in Catalogs :
          /\ revision = "views" => c # <<>>
          /\ gas_stations = IF revision = "views" THEN LoadGasStations(c) ELSE c
    /\ has_price \in BOOLEAN
    /\ miles_traveled = 0
    /\ used_stations = {}
    /\ fuel_stops = <<>>
    /\ stop_coordinates = waypoints[1]
    /\ nearest_waypoint = waypoints[1]
    /\ stop_city_state = <<NoneVal, NoneVal>>
    /\ nearest_station = <<>>
    /\ pc = "loop"
    /\ exception = ""
    /\ response = NoResponse
    /\ iter_log = <<>>
    /\ geocode_calls = 0

\* ------------------------------------------------------ one loop iteration
\* The part every iteration runs before the geocoder answers.
IterationStart ==
    /\ pc = "loop"
    /\ LoopCondition(revision, miles_traveled, total_distance)
    /\ miles_traveled' = AdvanceCursor(revision, miles_traveled)
    /\ stop_coordinates' = GetCoordinatesAtDistance(miles_traveled', waypoints)
    /\ nearest_waypoint' = FindNearestWaypoint(stop_coordinates', waypoints)
    /\ geocode_calls' = geocode_calls + 1
    /\ UNCHANGED <<revision, total_distance, waypoints, has_price, response>>

\* requests.get raises inside get_city_state_from_coordinates: the
\* exception leaves the planner.
IterGeocodeRaises ==
    /\ IterationStart
    /\ \E outcome \in GeocoderOutcomes : GeocodeRaises(outcome)
    /\ pc' = "raised"
    /\ exception' = "RequestException"
    /\ iter_log' = Append(iter_log, "geocode_raised")
    /\ UNCHANGED <<gas_stations, used_stations, fuel_stops, stop_city_state,
                   nearest_station>>

\* requests.get never comes back: the iteration never ends.
IterGeocodeHangs ==
    /\ IterationStart
    /\ \E outcome \in GeocoderOutcomes : GeocodeHangs(outcome)
    /\ pc' = "waiting"
    /\ UNCHANGED <<gas_stations, used_stations, fuel_stops, stop_city_state,
                   nearest_station, exception, iter_log>>

\* "if not stop_city or not stop_state: continue"
IterUnresolved ==
    /\ IterationStart
    /\ \E outcome \in GeocoderOutcomes :
          /\ GeocodeReturns(outcome)
          /\ LET cs == GetCityStateFromCoordinates(outcome)
             IN  /\ cs[1] = NoneVal \/ cs[2] = NoneVal
                 /\ stop_city_state' = cs
    /\ iter_log' = Append(iter_log, "unresolved")
    /\ UNCHANGED <<gas_stations, used_stations, fuel_stops, nearest_station, pc,
                   exception>>

\* find_nearest_gas_station_by_city returns None: "continue"
IterNoStation ==
    /\ IterationStart
    /\ \E outcome \in GeocoderOutcomes :
          /\ GeocodeReturns(outcome)
          /\ LET cs == GetCityStateFromCoordinates(outcome)
             IN  /\ cs[1] # NoneVal /\ cs[2] # NoneVal
                 /\ stop_city_state' = cs
                 /\ FindNearestGasStationByCity(cs[1], cs[2], gas_stations,
                                                used_stations) = <<>>
                 /\ nearest_station' =
                       FindNearestGasStationByCity(cs[1], cs[2], gas_stations,
                                                   used_stations)
                 /\ used_stations' =
                       UsedAfterLookup(cs[1], cs[2], gas_stations, used_stations)
    /\ gas_stations' = NormalizeCatalog(gas_stations)
    /\ iter_log' = Append(iter_log, "no_station")
    /\ UNCHANGED <<fuel_stops, pc, exception>>

\* views.py: a station is found and a stop is appended.
IterAppendStop ==
    /\ revision = "views"
    /\ IterationStart
    /\ \E outcome \in GeocoderOutcomes :
          /\ GeocodeReturns(outcome)
          /\ LET cs == GetCityStateFromCoordinates(outcome)
                 found == FindNearestGasStationByCity(cs[1], cs[2], gas_stations,
                                                      used_stations)
             IN  /\ cs[1] # NoneVal /\ cs[2] # NoneVal
                 /\ stop_city_state' = cs
                 /\ found # <<>>
                 /\ nearest_station' =
                       FindNearestGasStationByCity(cs[1], cs[2], gas_stations,
                                                   used_stations)
                 /\ used_stations' =
                       UsedAfterLookup(cs[1], cs[2], gas_stations, used_stations)
                          \cup {found[1].name}
                 /\ fuel_stops' =
                       Append(fuel_stops,
                              FuelStop(revision, found[1], has_price,
                                       miles_traveled', total_distance))
    /\ gas_stations' = NormalizeCatalog(gas_stations)
    /\ iter_log' = Append(iter_log, "stop")
    /\ UNCHANGED <<pc, exception>>

\* utils.py: a station is found and "if not nearest_station" asks a pandas
\* Series for its truth value, which raises ValueError.
IterTruthValueRaises ==
    /\ revision = "utils"
    /\ IterationStart
    /\ \E outcome \in GeocoderOutcomes :
          /\ GeocodeReturns(outcome)
          /\ LET cs == GetCityStateFromCoordinates(outcome)
             IN  /\ cs[1] # NoneVal /\ cs[2] # NoneVal
                 /\ stop_city_state' = cs
                 /\ FindNearestGasStationByCity(cs[1], cs[2], gas_stations,
                                                used_stations) # <<>>
                 /\ nearest_station' =
                       FindNearestGasStationByCity(cs[1], cs[2], gas_stations,
                                                   used_stations)
                 /\ used_stations' =
                       UsedAfterLookup(cs[1], cs[2], gas_stations, used_stations)
    /\ gas_stations' = NormalizeCatalog(gas_stations)
    /\ pc' = "raised"
    /\ exception' = "ValueError"
    /\ iter_log' = Append(iter_log, "truth_value_raised")
    /\ UNCHANGED fuel_stops

\* The loop condition fails: "return fuel_stops"
LoopReturn ==
    /\ pc = "loop"
    /\ ~LoopCondition(revision, miles_traveled, total_distance)
    /\ pc' = "returned"
    /\ UNCHANGED <<revision, total_distance, waypoints, gas_stations, has_price,
                   miles_traveled, used_stations, fuel_stops, stop_coordinates,
                   nearest_waypoint, stop_city_state, nearest_station, exception,
                   response, iter_log,
                   geocode_calls>>

\* ------------------------------------------------- calculate_trip's answer
\* The planner returned: the 200 response with the stops and their cost.
RespondTrip ==
    /\ revision = "views"
    /\ pc = "returned"
    /\ response' = [status |-> 200, fuel_stops |-> fuel_stops,
                    total_fuel_cost |-> CalculateTotalFuelCost(fuel_stops),
                    error |-> ""]
    /\ pc' = "responded"
    /\ UNCHANGED <<revision, total_distance, waypoints, gas_stations, has_price,
                   miles_traveled, used_stations, fuel_stops, stop_coordinates,
                   nearest_waypoint, stop_city_state, nearest_station, exception,
                   iter_log, geocode_calls>>

\* "except Exception as e": the generic 500 response.
RespondUnexpectedError ==
    /\ revision = "views"
    /\ pc = "raised"
    /\ response' = [status |-> 500, fuel_stops |-> <<>>, total_fuel_cost |-> 0,
                    error |-> "An unexpected error occurred"]
    /\ pc' = "responded"
    /\ UNCHANGED <<revision, total_distance, waypoints, gas_stations, has_price,
                   miles_traveled, used_stations, fuel_stops, stop_coordinates,
                   nearest_waypoint, stop_city_state, nearest_station, exception,
                   iter_log, geocode_calls>>

Next ==
    \/ IterGeocodeRaises
    \/ IterGeocodeHangs
    \/ IterUnresolved
    \/ IterNoStation
    \/ IterAppendStop
    \/ IterTruthValueRaises
    \/ LoopReturn
    \/ RespondTrip
    \/ RespondUnexpectedError

Spec == Init /\ [][Next]_vars

\* The planner's own steps are taken as long as one is possible; a lookup
\* that never answers leaves it waiting, with no step to take.
FairSpec == Spec /\ WF_vars(Next)

\* ------------------------- get_coordinates_at_distance as a function alone
ProbeTargets == { i * TargetGrain - TargetGrain : i \in 0..MaxTargetGrains }

InitCoordinates ==
    /\ revision = "utils"
    /\ total_distance = 0
    /\ waypoints \in Routes
    /\ gas_stations = <<>>
    /\ has_price = FALSE
    /\ miles_traveled \in ProbeTargets
    /\ used_stations = {}
    /\ fuel_stops = <<>>
    /\ stop_coordinates = waypoints[1]
    /\ nearest_waypoint = waypoints[1]
    /\ stop_city_state = <<NoneVal, NoneVal>>
    /\ nearest_station = <<>>
    /\ pc = "call"
    /\ exception = ""
    /\ response = NoResponse
    /\ iter_log = <<>>
    /\ geocode_calls = 0

CallGetCoordinates ==
    /\ pc = "call"
    /\ stop_coordinates' = GetCoordinatesAtDistance(miles_traveled, waypoints)
    /\ nearest_waypoint' = FindNearestWaypoint(stop_coordinates', waypoints)
    /\ pc' = "done"
    /\ UNCHANGED <<revision, total_distance, waypoints, gas_stations, has_price,
                   miles_traveled, used_stations, fuel_stops, stop_city_state,
                   nearest_station,
                   exception, response, iter_log, geocode_calls>>

NextCoordinates == CallGetCoordinates

SpecCoordinates == InitCoordinates /\ [][NextCoordinates]_vars

\* ------------------- find_nearest_gas_station_by_city as a function alone
\* The names a caller may hold in used_stations.
StationNames == { r.name : r \in StationRows }

\* The city/state pairs the geocoding call hands to the lookup.
ResolvedPairs ==
    { GetCityStateFromCoordinates(o) :
        o \in {x \in GeocoderOutcomes : GeocodeReturns(x)} }
        \ { <<NoneVal, NoneVal>> }

InitLookup ==
    /\ revision = "utils"
    /\ total_distance = 0
    /\ waypoints = <<0, WaypointGrain>>
    /\ gas_stations \in Catalogs
    /\ has_price = FALSE
    /\ miles_traveled = 0
    /\ used_stations \in SUBSET StationNames
    /\ fuel_stops = <<>>
    /\ stop_coordinates = waypoints[1]
    /\ nearest_waypoint = waypoints[1]
    /\ stop_city_state \in ResolvedPairs
    /\ nearest_station = <<>>
    /\ pc = "lookup"
    /\ exception = ""
    /\ response = NoResponse
    /\ iter_log = <<>>
    /\ geocode_calls = 0

CallFindNearestGasStation ==
    /\ pc = "lookup"
    /\ nearest_station' =
          FindNearestGasStationByCity(stop_city_state[1], stop_city_state[2],
                                      gas_stations, used_stations)
    /\ used_stations' =
          UsedAfterLookup(stop_city_state[1], stop_city_state[2],
                          gas_stations, used_stations)
    /\ gas_stations' = NormalizeCatalog(gas_stations)
    /\ pc' = "looked_up"
    /\ UNCHANGED <<revision, total_distance, waypoints, has_price,
                   miles_traveled, fuel_stops, stop_coordinates,
                   nearest_waypoint, stop_city_state, exception, response,
                   iter_log, geocode_calls>>

NextLookup == CallFindNearestGasStation

SpecLookup == InitLookup /\ [][NextLookup]_vars


\* ================================================================ claims
\* Miles recorded by the stop before stop i, 0 before the first.
PreviousMiles(stops, i) == IF i = 1 THEN 0 ELSE stops[i - 1].miles_traveled

LegMiles(stops, i) == stops[i].miles_traveled - PreviousMiles(stops, i)

Missed(entry) == entry \in {"unresolved", "no_station"}

\* C1: the origin-to-first-stop distance and the distance between every two
\* consecutive stops, by their recorded miles_traveled, is at most the
\* vehicle range, skipped iterations included.
C1_LegsWithinRange ==
    \A i \in 1..Len(fuel_stops) :
        LegMiles(fuel_stops, i) <= VehicleRange(revision)

\* C2: in every state of a planning run and in the returned list, no
\* station name appears in more than one fuel stop, and every station named
\* in a stop is in used_stations.
C2_NoStationReused ==
    /\ \A i, j \in 1..Len(fuel_stops) :
          fuel_stops[i].name = fuel_stops[j].name => i = j
    /\ \A i \in 1..Len(fuel_stops) : fuel_stops[i].name \in used_stations
    /\ \A i, j \in 1..Len(response.fuel_stops) :
          response.fuel_stops[i].name = response.fuel_stops[j].name => i = j

\* C2's case: a cursor position resolved to the city of a stop already
\* made, and the station there was refused.
C2_Witness ==
    /\ pc = "loop"
    /\ iter_log # <<>>
    /\ iter_log[Len(iter_log)] = "no_station"
    /\ \E i \in 1..Len(fuel_stops) :
          /\ fuel_stops[i].city = Title(StripLower(stop_city_state[1]))
          /\ fuel_stops[i].state = StripUpper(stop_city_state[2])

\* C3: after each stop is appended the cursor miles_traveled equals that
\* stop's recorded miles_traveled, and the recorded miles_traveled of the
\* stops are strictly increasing in list order.  (Stated for routes of
\* positive length; C6 is about total_distance = 0.)
C3_CursorIsRecordedAndIncreasing ==
    total_distance > 0 =>
        /\ (iter_log # <<>> /\ iter_log[Len(iter_log)] = "stop")
              => miles_traveled = fuel_stops[Len(fuel_stops)].miles_traveled
        /\ \A i, j \in 1..Len(fuel_stops) :
              i < j => fuel_stops[i].miles_traveled < fuel_stops[j].miles_traveled

\* Sum of fuel_needed_gallons (hundredths of a gallon) over the stops.
RECURSIVE SumFuel(_)
SumFuel(stops) ==
    IF stops = <<>> THEN 0
    ELSE stops[1].fuel_needed_gallons + SumFuel(Tail(stops))

\* C4: every stop's fuel_needed_gallons is the distance travelled since the
\* previous stop (the origin for the first) divided by MPG, its total_cost
\* is fuel_needed_gallons times the station's price per gallon (3.50 without
\* a price), and the fuel of a plan sums to at most total_distance / MPG.
\* (Stated for routes of positive length; C6 is about total_distance = 0.)
C4_FuelIsLegOverMPG ==
    total_distance > 0 =>
        /\ \A i \in 1..Len(fuel_stops) :
              /\ fuel_stops[i].fuel_needed_gallons * MPG
                    = LegMiles(fuel_stops, i) * 100
              /\ \E k \in 1..Len(gas_stations) :
                    /\ gas_stations[k].name = fuel_stops[i].name
                    /\ fuel_stops[i].total_cost =
                          RoundHalfEven(fuel_stops[i].fuel_needed_gallons
                                           * RetailPrice(gas_stations[k], has_price),
                                        1000)
        /\ SumFuel(fuel_stops) * MPG <= total_distance * 100

\* C5: with total_distance > 0 and no cursor position yielding a station,
\* calculate_trip answers with a NoStationNearOrigin error and returns no
\* plan, not even an empty one with a success status.
C5_NoStationIsAnError ==
    ( /\ pc = "responded"
      /\ total_distance > 0
      /\ exception = ""
      /\ \A i \in 1..Len(iter_log) : Missed(iter_log[i]) )
    => /\ response.status # 200
       /\ response.error = "NoStationNearOrigin"

\* C6: with total_distance = 0 the planner runs no loop iteration, makes no
\* geocoding call, returns an empty list, and the total fuel cost is 0.
\* (Stated for the runs no exception and no unanswered lookup cuts short.)
C6_ZeroDistancePlansNothing ==
    (total_distance = 0 /\ exception = "" /\ pc # "waiting") =>
        /\ iter_log = <<>>
        /\ geocode_calls = 0
        /\ fuel_stops = <<>>
        /\ CalculateTotalFuelCost(fuel_stops) = 0
        /\ response.fuel_stops = <<>>
        /\ response.total_fuel_cost = 0

\* C7: once a stop has been appended, an iteration that finds no station is
\* the last iteration of the loop: no later iteration appends a stop or
\* skips again.  (An iteration an exception cuts short is not counted.)
C7_MissAfterStopEndsLoop ==
    \A j \in 1..Len(iter_log) :
        (Missed(iter_log[j]) /\ \E i \in 1..(j - 1) : iter_log[i] = "stop")
            => \A k \in (j + 1)..Len(iter_log) :
                  ~Missed(iter_log[k]) /\ iter_log[k] # "stop"

\* C8: whatever the reverse-geocoding collaborator does on a lookup,
\* transport failure included, get_city_state_from_coordinates returns a
\* pair or the unresolved value and never raises, so calculate_trip never
\* ends in its 500 branch because of a geocoding failure.  (Stated for
\* routes of positive length; C6 is about total_distance = 0.)
C8_GeocodingNeverRaises ==
    total_distance > 0 =>
        /\ exception # "RequestException"
        /\ \A i \in 1..Len(iter_log) : iter_log[i] # "geocode_raised"
        /\ response.status # 500

\* The index the claim names: the last waypoint whose cumulative distance
\* is at most target, the first waypoint when target <= 0.
LastIndexAtOrBefore(target, wps) ==
    IF target <= 0 THEN 1
    ELSE CHOOSE k \in 1..Len(wps) :
           /\ CumulativeMiles(wps, k) <= target
           /\ \A j \in 1..Len(wps) : CumulativeMiles(wps, j) <= target => j <= k

\* C9: get_coordinates_at_distance returns the last waypoint whose
\* cumulative distance from the first is <= target: the first waypoint when
\* target <= 0, the final one when target exceeds the route's length, never
\* one whose cumulative distance is greater than target otherwise.
C9_LastWaypointAtOrBefore ==
    pc = "done" =>
        stop_coordinates = waypoints[LastIndexAtOrBefore(miles_traveled, waypoints)]

\* C10: for every sequence of geocoding and station-lookup outcomes the
\* planner loop terminates (a lookup that never answers gives no outcome:
\* the run then waits in that iteration); the cursor never decreases and
\* grows on every iteration, stop or no stop; the iterations number at most
\* floor(total_distance / VEHICLE_RANGE_MILES) + 1, and so do the stops and
\* the geocoding calls.  geocode_calls counts the iterations begun.
C10_LoopTerminatesWithinBound ==
    /\ <>(pc \in {"returned", "raised", "responded"} \/ pc = "waiting")
    /\ [](/\ geocode_calls <= (total_distance \div VehicleRange(revision)) + 1
          /\ Len(iter_log) <= geocode_calls
          /\ Len(fuel_stops) <= Len(iter_log))
    /\ [][/\ miles_traveled' >= miles_traveled
          /\ geocode_calls' > geocode_calls => miles_traveled' > miles_traveled]_vars

\* C10's case: a run of several iterations, every one of them skipped, at
\* the bound and over.
C10_Witness ==
    /\ pc = "returned"
    /\ Len(iter_log) >= 2
    /\ Len(iter_log) = (total_distance \div VehicleRange(revision)) + 1
    /\ \A i \in 1..Len(iter_log) : Missed(iter_log[i])
    /\ fuel_stops = <<>>

\* The stations of the city and state whose name is not in used, in table
\* order.
UnusedInCity(stop_city, stop_state, catalog, used) ==
    SelectSeq(CityMatch(stop_city, stop_state, catalog),
              LAMBDA row : row.name \notin used)

\* C11: find_nearest_gas_station_by_city returns a station whenever the
\* table holds a station of that normalized city/state whose name is not in
\* used_stations, and then the first such one in table order; it returns
\* None only when there is none.  On None used_stations is unchanged, on a
\* station it grows by exactly that station's name.
C11_FirstUnusedStationOfCity ==
    [][(pc = "lookup" /\ pc' = "looked_up") =>
          LET unused == UnusedInCity(stop_city_state[1], stop_city_state[2],
                                     gas_stations, used_stations)
          IN  IF unused = <<>>
              THEN /\ nearest_station' = <<>>
                   /\ used_stations' = used_stations
              ELSE /\ nearest_station' = <<unused[1]>>
                   /\ used_stations' = used_stations \cup {unused[1].name}]_vars

====
